---- MODULE Spec2Model ----
(***************************************************************************)
(* Supply Chain Disruption Response Agent: the ReAct loop of graph.py      *)
(* (agent node, router, tool node, message reducer, recursion limit) and   *)
(* the tools of tools.py it dispatches to.                                 *)
(*                                                                         *)
(* Library behaviour the source relies on, as modelled here:               *)
(*  - add_messages merges by message id: a new message whose id equals an  *)
(*    existing entry's id replaces that entry in place, any other message  *)
(*    is appended; messages without an id get a fresh one (uuid4).         *)
(*  - ToolNode runs the calls of the last AI message on a thread pool and  *)
(*    returns one ToolMessage per call, in call order; the reducer is      *)
(*    applied once, after the node has returned.                           *)
(*  - recursion_limit bounds the number of supersteps (node executions);   *)
(*    a run that still has a node to execute when the limit is used up     *)
(*    raises GraphRecursionError.                                          *)
(***************************************************************************)
EXTENDS Integers, Sequences, FiniteSets, TLC

VARIABLES
    messages,         \* State["messages"]: the conversation history
    pc,               \* node the graph executes next, or how the run ended
    step,             \* supersteps executed so far
    recursion_limit,  \* config["recursion_limit"] of this run
    model_double,     \* behaviour of the language model in this run
    llm_sets_id,      \* TRUE when the provider's response carries a message id
    outputs,          \* tool node: outputs of the calls executed so far, by call index
    route,            \* last decision of route_agent_output
    agent_steps,      \* number of agent node executions so far
    probe,            \* the tool calls run through the tool node on their own
    tables,           \* the mock data tables of tools.py (module globals)
    bound_tools,      \* the tools bound to the model: llm.bind_tools(ALL_TOOLS)
    tools_by_name,    \* the tool node's catalog: name -> tool
    llm_requests,     \* requests the model client has sent in the agent step at hand
    llm_input         \* the sequence last handed to the model

\* what is set up at import and what the model client keeps to itself
env == <<tables, bound_tools, tools_by_name>>

vars == <<messages, pc, step, recursion_limit, model_double, llm_sets_id,
          outputs, route, agent_steps, probe, env, llm_requests, llm_input>>

-----------------------------------------------------------------------------
(* Bounds of the model *)

\* largest recursion_limit a run is started with
MaxLimit == 3

\* largest number of tool calls in one AI message
MaxCalls == 2

\* the recursion limit the main program passes to app.invoke
DefaultRecursionLimit == 25

-----------------------------------------------------------------------------
(* Argument values: a string, an integer or null *)

StrV(s) == [t |-> "str", s |-> s, n |-> 0]
IntV(n) == [t |-> "int", s |-> "", n |-> n]
Null == [t |-> "null", s |-> "", n |-> 0]
\* an f-string: its template and the values formatted into it
FmtV(s, args) == [t |-> "str", s |-> s, n |-> 0, args |-> args]

\* a mapping as a sequence of <<key, value>> pairs (a dict keeps insertion order)
Keys(d) == {d[i][1] : i \in 1..Len(d)}
HasKey(d, k) == k \in Keys(d)
Get(d, k) == d[CHOOSE i \in 1..Len(d) : d[i][1] = k][2]

-----------------------------------------------------------------------------
(* The tool catalog *)

\* mutant: one tool is listed twice in place of another
ALL_TOOLS_Duplicate ==
    << "search_supplier_docs", "query_inventory_db", "fetch_disruption_alerts",
       "load_disruption_history", "get_supplier_pricing", "search_sop_wiki",
       "calculate_financial_impact", "draft_response_plan",
       "send_notification", "send_notification" >>

ALL_TOOLS ==
    << "search_supplier_docs", "query_inventory_db", "fetch_disruption_alerts",
       "load_disruption_history", "get_supplier_pricing", "search_sop_wiki",
       "calculate_financial_impact", "draft_response_plan",
       "send_notification", "update_purchase_order" >>

ToolNames == {ALL_TOOLS[i] : i \in 1..Len(ALL_TOOLS)}

\* the two tools the system prompt lists under EXECUTION
WorldChanging == {"send_notification", "update_purchase_order"}

\* args_schema of each tool: <<parameter, type, required>>
ArgsSchema(name) ==
    CASE name = "search_supplier_docs" ->
            << <<"query", "str", TRUE>>, <<"top_k", "int", FALSE>> >>
      [] name = "query_inventory_db" -> << <<"sql", "str", TRUE>> >>
      [] name = "fetch_disruption_alerts" ->
            << <<"region", "str", TRUE>>, <<"category", "str", TRUE>> >>
      [] name = "load_disruption_history" -> << <<"disruption_type", "str", TRUE>> >>
      [] name = "get_supplier_pricing" ->
            << <<"supplier_id", "str", TRUE>>, <<"sku", "str", TRUE>> >>
      [] name = "search_sop_wiki" -> << <<"query", "str", TRUE>> >>
      [] name = "calculate_financial_impact" ->
            << <<"affected_orders", "str", TRUE>>, <<"alt_pricing", "str", TRUE>> >>
      [] name = "draft_response_plan" -> << <<"context", "str", TRUE>> >>
      [] name = "send_notification" ->
            << <<"channel", "str", TRUE>>, <<"message", "str", TRUE>>,
               <<"recipients", "str", TRUE>> >>
      [] name = "update_purchase_order" ->
            << <<"po_id", "str", TRUE>>, <<"new_supplier", "str", TRUE>>,
               <<"new_terms", "str", TRUE>> >>

\* mutant: a string field must also be non-empty
ValidArgs_NonEmpty(name, args) ==
    LET schema == ArgsSchema(name)
    IN \A i \in 1..Len(schema) :
          LET p == schema[i]
          IN IF HasKey(args, p[1])
                THEN /\ Get(args, p[1]).t = p[2]
                     /\ p[2] = "str" => Get(args, p[1]).s # ""
                ELSE ~p[3]

\* pydantic validation of a call's arguments against the tool's schema:
\* every required field is present and every given field has its type
ValidArgs(name, args) ==
    LET schema == ArgsSchema(name)
    IN \A i \in 1..Len(schema) :
          LET p == schema[i]
          IN IF HasKey(args, p[1])
                THEN Get(args, p[1]).t = p[2]
                ELSE ~p[3]

-----------------------------------------------------------------------------
(* The mock data tables.  Money is kept in thousandths of a dollar.          *)

InventoryItem(name, stock, reorder_point, supplier_id, unit_cost, category) ==
    [name |-> name, stock |-> stock, reorder_point |-> reorder_point,
     supplier_id |-> supplier_id, unit_cost |-> unit_cost, category |-> category]

INVENTORY_DATA ==
    << <<"SKU-MCU2200", InventoryItem("Microcontroller MCU-2200", 1200, 500, "TPA-001", 4500, "semiconductor")>>,
       <<"SKU-MCU3300", InventoryItem("Microcontroller MCU-3300", 300, 400, "TPA-001", 6750, "semiconductor")>>,
       <<"SKU-RES10K", InventoryItem("Resistor 10K Ohm", 50000, 10000, "ECG-002", 20, "passive")>>,
       <<"SKU-RES47K", InventoryItem("Resistor 47K Ohm", 35000, 8000, "ECG-002", 20, "passive")>>,
       <<"SKU-CAP100", InventoryItem("Capacitor 100nF", 42000, 15000, "TPA-001", 50, "passive")>>,
       <<"SKU-IND100", InventoryItem("Inductor 100uH", 18000, 5000, "ECG-002", 80, "passive")>> >>

PurchaseOrder(po_id, supplier_id, sku, quantity, status, expected_delivery, total_value) ==
    [po_id |-> po_id, supplier_id |-> supplier_id, sku |-> sku, quantity |-> quantity,
     status |-> status, expected_delivery |-> expected_delivery,
     total_value |-> total_value]

PURCHASE_ORDERS ==
    << PurchaseOrder("PO-2024-001", "TPA-001", "SKU-MCU2200", 10000, "open", "2025-03-15", 45000000),
       PurchaseOrder("PO-2024-002", "TPA-001", "SKU-MCU3300", 5000, "open", "2025-03-20", 33750000),
       PurchaseOrder("PO-2024-003", "ECG-002", "SKU-RES10K", 100000, "open", "2025-03-05", 2000000),
       PurchaseOrder("PO-2024-004", "TPA-001", "SKU-CAP100", 50000, "in_transit", "2025-02-28", 2500000) >>

Disruption(event, type, duration_days, affected_suppliers, response, cost_impact, resolution_time_hours) ==
    [event |-> event, type |-> type, duration_days |-> duration_days,
     affected_suppliers |-> affected_suppliers, response |-> response,
     cost_impact |-> cost_impact, resolution_time_hours |-> resolution_time_hours]

DISRUPTION_HISTORY ==
    << Disruption("Shenzhen port closure 2023", "logistics_delay", 14,
                  <<"TPA-001", "PCK-009">>,
                  "Rerouted via Hong Kong air freight. Activated ALT-003 for urgent MCU orders.",
                  125000, 6),
       Disruption("TPA-001 quality excursion Q2 2023", "quality_recall", 21,
                  <<"TPA-001">>,
                  "Quarantined affected lots. Shifted 60% allocation to ALT-003 for 3 weeks.",
                  85000, 4),
       Disruption("Semiconductor price spike 2022", "price_spike", 90,
                  <<"TPA-001", "ALT-003", "RAW-008">>,
                  "Locked in 6-month forward contracts. Negotiated volume discounts with MFG-005.",
                  340000, 48),
       Disruption("Taiwan strait tensions 2024", "geopolitical", 30,
                  <<"ALT-003">>,
                  "Pre-positioned 30-day safety stock. Activated European backup suppliers.",
                  200000, 12),
       Disruption("ECG-002 factory fire 2022", "supplier_failure", 45,
                  <<"ECG-002">>,
                  "Switched passive components to ALT-004. Expedited orders via air freight.",
                  95000, 8) >>

Pricing(price, lead_time_days, moq) ==
    [price |-> price, lead_time_days |-> lead_time_days, moq |-> moq]

\* keyed by the pair (supplier_id, sku)
SUPPLIER_PRICING ==
    << << <<"TPA-001", "SKU-MCU2200">>, Pricing(4500, 18, 5000) >>,
       << <<"TPA-001", "SKU-MCU3300">>, Pricing(6750, 18, 5000) >>,
       << <<"TPA-001", "SKU-CAP100">>, Pricing(50, 14, 10000) >>,
       << <<"ALT-003", "SKU-MCU2200">>, Pricing(5250, 12, 2000) >>,
       << <<"ALT-003", "SKU-MCU3300">>, Pricing(7800, 12, 2000) >>,
       << <<"ALT-004", "SKU-RES10K">>, Pricing(25, 10, 500) >>,
       << <<"ALT-004", "SKU-CAP100">>, Pricing(60, 12, 500) >>,
       << <<"ECG-002", "SKU-RES10K">>, Pricing(20, 8, 1000) >>,
       << <<"ECG-002", "SKU-RES47K">>, Pricing(20, 8, 1000) >>,
       << <<"ECG-002", "SKU-IND100">>, Pricing(80, 8, 1000) >>,
       << <<"MFG-005", "SKU-MCU2200">>, Pricing(9000, 25, 1000) >>,
       << <<"MFG-005", "SKU-MCU3300">>, Pricing(13500, 25, 1000) >> >>

\* each procedure by its title line
SOP_CONTENT ==
    << <<"supplier_failure", "SOP-001: Supplier Failure Response Protocol">>,
       <<"logistics_delay", "SOP-002: Logistics Delay Response Protocol">>,
       <<"quality_recall", "SOP-003: Quality Recall Response Protocol">>,
       <<"price_spike", "SOP-004: Price Spike Response Protocol">>,
       <<"geopolitical", "SOP-005: Geopolitical Risk Response Protocol">> >>

\* the module globals as they stand after import
ModuleTables ==
    [INVENTORY_DATA |-> INVENTORY_DATA, PURCHASE_ORDERS |-> PURCHASE_ORDERS,
     DISRUPTION_HISTORY |-> DISRUPTION_HISTORY, SUPPLIER_PRICING |-> SUPPLIER_PRICING,
     SOP_CONTENT |-> SOP_CONTENT]

-----------------------------------------------------------------------------
(* What a tool function does when it is called: it returns a string, or an  *)
(* exception leaves it.  A returned string is modelled by its kind and the  *)
(* fields it carries.                                                       *)

Returns(kind, data) == [raised |-> FALSE, exc |-> "", kind |-> kind, data |-> data]
Raises(exc) == [raised |-> TRUE, exc |-> exc, kind |-> "", data |-> << >>]

\* json.loads on the strings the model passes as JSON arguments.
\* ok = FALSE stands for json.JSONDecodeError; otherwise kind is the Python
\* type of the parsed value and elems the elements of a list.  An element is
\* <<type, has_total_value, total_value>>.  A number too large for a float
\* (1e999) is parsed as the float inf.
JsonStrings ==
    { "{bad", "7", "{}", "[]", "[1]", "[{\"total_value\": 100}]",
      "[{\"total_value\": 100}, {\"total_value\": -300}]",
      "[{\"total_value\": 45000}, {\"total_value\": 33750}]",
      "[{\"total_value\": 1e999}]",
      "[{\"total_value\": \"x\"}]", "[{\"po_id\": \"PO-2024-001\"}]" }

Dict(has_tv, tv) == <<"dict", has_tv, tv>>

\* the floats that are no numbers of the model's fixed-point arithmetic
Inf == [t |-> "float", s |-> "inf", n |-> 0]
NaN == [t |-> "float", s |-> "nan", n |-> 0]

json_loads(s) ==
    CASE s = "7" -> [ok |-> TRUE, kind |-> "int", elems |-> << >>]
      [] s = "{}" -> [ok |-> TRUE, kind |-> "dict", elems |-> << >>]
      [] s = "[]" -> [ok |-> TRUE, kind |-> "list", elems |-> << >>]
      [] s = "[1]" -> [ok |-> TRUE, kind |-> "list", elems |-> << <<"int", FALSE, Null>> >>]
      [] s = "[{\"total_value\": 100}]" ->
            [ok |-> TRUE, kind |-> "list", elems |-> << Dict(TRUE, IntV(100)) >>]
      [] s = "[{\"total_value\": 100}, {\"total_value\": -300}]" ->
            [ok |-> TRUE, kind |-> "list",
             elems |-> << Dict(TRUE, IntV(100)), Dict(TRUE, IntV(-300)) >>]
      [] s = "[{\"total_value\": 45000}, {\"total_value\": 33750}]" ->
            [ok |-> TRUE, kind |-> "list",
             elems |-> << Dict(TRUE, IntV(45000)), Dict(TRUE, IntV(33750)) >>]
      [] s = "[{\"total_value\": 1e999}]" ->
            [ok |-> TRUE, kind |-> "list", elems |-> << Dict(TRUE, Inf) >>]
      [] s = "[{\"total_value\": \"x\"}]" ->
            [ok |-> TRUE, kind |-> "list", elems |-> << Dict(TRUE, StrV("x")) >>]
      [] s = "[{\"po_id\": \"PO-2024-001\"}]" ->
            [ok |-> TRUE, kind |-> "list", elems |-> << Dict(FALSE, Null) >>]
      [] OTHER -> [ok |-> FALSE, kind |-> "", elems |-> << >>]

\* Python's arithmetic on numbers: IntV(n) is a finite number, Inf and NaN
\* are the floats inf and nan.  x + y, with inf for a sum that has an inf
FloatAdd(x, y) ==
    IF x = NaN \/ y = NaN THEN NaN
    ELSE IF x = Inf \/ y = Inf THEN Inf
    ELSE IntV(x.n + y.n)

\* x * c for a positive finite constant c
FloatMul(x, c) == IF x.t = "int" THEN IntV(x.n * c) ELSE x

\* x / y for y >= 1 (or nan): inf / inf is nan
FloatDiv(x, y) ==
    IF x = NaN \/ y = NaN \/ (x = Inf /\ y = Inf) THEN NaN
    ELSE IF x = Inf THEN Inf
    ELSE IF y = Inf THEN IntV(0)
    ELSE IntV(x.n \div y.n)

\* x < y: every comparison with nan is False
FloatLess(x, y) ==
    IF x = NaN \/ y = NaN \/ x = Inf THEN FALSE
    ELSE IF y = Inf THEN TRUE
    ELSE x.n < y.n

\* min(a, b) and max(a, b): the first argument unless the second is strictly
\* smaller (larger), so a nan as second argument is never chosen
FloatMin(a, b) == IF FloatLess(b, a) THEN b ELSE a
FloatMax(a, b) == IF FloatLess(a, b) THEN b ELSE a

\* sum(o.get("total_value", 0) for o in orders): the running total, or the
\* exception raised at the first element that has no .get or whose value
\* cannot be added to a number
RECURSIVE SumTotalValue(_, _, _)
SumTotalValue(elems, i, acc) ==
    IF i > Len(elems) THEN [raised |-> FALSE, exc |-> "", total |-> acc]
    ELSE LET o == elems[i]
         IN IF o[1] # "dict"
               THEN [raised |-> TRUE, exc |-> "AttributeError", total |-> IntV(0)]
            ELSE IF ~o[2] THEN SumTotalValue(elems, i + 1, FloatAdd(acc, IntV(0)))
            ELSE IF o[3].t \notin {"int", "float"}
               THEN [raised |-> TRUE, exc |-> "TypeError", total |-> IntV(0)]
            ELSE SumTotalValue(elems, i + 1, FloatAdd(acc, o[3]))

Min(a, b) == IF a < b THEN a ELSE b
Max(a, b) == IF a > b THEN a ELSE b

\* the risk level of a risk score given in hundredths
RiskLevel(risk_score) ==
    IF FloatLess(IntV(60), risk_score) THEN "high"
    ELSE IF FloatLess(IntV(30), risk_score) THEN "medium" ELSE "low"

\* Amounts are integers; every derived figure is kept in hundredths, where the
\* multipliers 0.15, 0.08 and 2.5 are exact.  risk_score is
\* min(0.85, cost_delta / max(total_original, 1)): the divisor is total_original
\* itself when that is at least 1, and 1 otherwise.
calculate_financial_impact(affected_orders, alt_pricing) ==
    LET orders == json_loads(affected_orders)
        pricing == json_loads(alt_pricing)
    IN IF ~orders.ok \/ ~pricing.ok
          THEN Returns("json", << <<"error", StrV("Invalid JSON input. Provide valid JSON strings.")>> >>)
       ELSE LET sum == IF orders.kind = "list"
                          THEN SumTotalValue(orders.elems, 1, IntV(0))
                          ELSE [raised |-> FALSE, exc |-> "", total |-> IntV(0)]
            IN IF sum.raised THEN Raises(sum.exc)
               ELSE LET total_original == sum.total
                        cost_delta == FloatMul(total_original, 15)
                        expedite_fees == FloatMul(total_original, 8)
                        revenue_at_risk == FloatMul(total_original, 250)
                        risk_score == FloatMin(IntV(85),
                                               FloatDiv(cost_delta, FloatMax(total_original, IntV(1))))
                    IN Returns("json",
                         << <<"total_original_value", FloatMul(total_original, 100)>>,
                            <<"estimated_cost_increase", cost_delta>>,
                            <<"expedite_shipping_fees", expedite_fees>>,
                            <<"revenue_at_risk", revenue_at_risk>>,
                            <<"total_financial_exposure", FloatAdd(cost_delta, expedite_fees)>>,
                            <<"risk_score", risk_score>>,
                            <<"risk_level", StrV(RiskLevel(risk_score))>> >>)

\* one alert, built from the two arguments as given (headline and details are
\* formatted from the same two arguments)
fetch_disruption_alerts(region, category) ==
    Returns("json",
      << <<"alert_id", StrV("ALERT-2025-0042")>>,
         <<"region", StrV(region)>>,
         <<"category", StrV(category)>>,
         <<"severity", StrV("high")>>,
         <<"source", StrV("Supply Chain Risk Monitor")>> >>)

\* mutant: the payload carries no disclaimer
send_notification_NoDisclaimer(channel, message, recipients) ==
    Returns("json",
      << <<"status", StrV("sent")>>,
         <<"channel", StrV(channel)>>,
         <<"recipients", StrV(recipients)>>,
         <<"message_preview", StrV(message)>>,
         <<"timestamp", StrV("2025-02-23T15:00:00Z")>> >>)

send_notification(channel, message, recipients) ==
    Returns("json",
      << <<"status", StrV("sent")>>,
         <<"channel", StrV(channel)>>,
         <<"recipients", StrV(recipients)>>,
         <<"message_preview", StrV(message)>>,
         <<"timestamp", StrV("2025-02-23T15:00:00Z")>>,
         <<"note", StrV("[MOCK] Notification simulated - no actual message sent.")>> >>)

update_purchase_order(po_id, new_supplier, new_terms) ==
    Returns("json",
      << <<"status", StrV("updated")>>,
         <<"po_id", StrV(po_id)>>,
         <<"previous_supplier", StrV("TPA-001")>>,
         <<"new_supplier", StrV(new_supplier)>>,
         <<"new_terms", StrV(new_terms)>>,
         <<"timestamp", StrV("2025-02-23T15:05:00Z")>>,
         <<"note", StrV("[MOCK] PO update simulated - no actual ERP change made.")>> >>)

\* documents in the supplier_docs collection of the vector store
SupplierDocs == 12

\* the query search_supplier_docs hands to the vector store
VectorSearchRequest(query, top_k) ==
    [query_texts |-> <<query>>, n_results |-> Min(top_k, 10)]

\* The vector store answers with the n_results nearest documents (all of them
\* when it holds fewer) and refuses a request for no or a negative number of
\* results; the tool formats one entry per document.
search_supplier_docs(query, top_k) ==
    LET request == VectorSearchRequest(query, top_k)
    IN IF request.n_results < 1
          THEN Raises("ValueError")
          ELSE Returns("text",
                 << <<"query", StrV(query)>>,
                    <<"results", IntV(Min(request.n_results, SupplierDocs))>> >>)

\* the entries of DISRUPTION_HISTORY of the given type, all entries when none
\* is of that type
load_disruption_history(disruption_type) ==
    LET matching == SelectSeq(tables.DISRUPTION_HISTORY,
                              LAMBDA h : h.type = disruption_type)
    IN Returns("json_list",
               IF matching = << >> THEN tables.DISRUPTION_HISTORY ELSE matching)

get_supplier_pricing(supplier_id, sku) ==
    LET key == <<supplier_id, sku>>
    IN IF HasKey(tables.SUPPLIER_PRICING, key)
          THEN LET data == Get(tables.SUPPLIER_PRICING, key)
               IN Returns("json",
                    << <<"supplier_id", StrV(supplier_id)>>,
                       <<"sku", StrV(sku)>>,
                       <<"price", IntV(data.price)>>,
                       <<"lead_time_days", IntV(data.lead_time_days)>>,
                       <<"moq", IntV(data.moq)>> >>)
          ELSE Returns("json",
                 << <<"error", FmtV("No pricing found for supplier {}, SKU {}. Try a different supplier_id or sku combination.",
                                    <<supplier_id, sku>>)>> >>)

\* the texts query_inventory_db is asked with: the schema's two examples,
\* texts that name a supplier, a status or a SKU of a table, one that names
\* none, texts with 'all', upper and lower case, the empty text and a text
\* that holds 'po' inside a word
SqlTexts ==
    { "",
      "SELECT * FROM purchase_orders WHERE status = open",
      "SELECT * FROM inventory WHERE supplier_id = TPA-001",
      "purchase_orders of TPA-001",
      "purchase_orders in_transit",
      "purchase_orders of XYZ-999",
      "open PO of ECG-002",
      "all purchase_orders of ECG-002",
      "stock of ECG-002",
      "stock of SKU-MCU2200",
      "stock of XYZ-999",
      "all stock of ECG-002",
      "components of TPA-001" }

\* a str as the sequence of its characters, for the texts of SqlTexts, the
\* supplier ids, statuses and SKU ids of the tables and the words the tool
\* looks for
Chars(s) ==
    CASE s = "" ->
            << >>
      [] s = "SELECT * FROM purchase_orders WHERE status = open" ->
            <<"S", "E", "L", "E", "C", "T", " ", "*", " ", "F", "R", "O", "M", " ", "p", "u", "r", "c", "h", "a", "s", "e", "_", "o", "r", "d", "e", "r", "s", " ", "W", "H", "E", "R", "E", " ", "s", "t", "a", "t", "u", "s", " ", "=", " ", "o", "p", "e", "n">>
      [] s = "SELECT * FROM inventory WHERE supplier_id = TPA-001" ->
            <<"S", "E", "L", "E", "C", "T", " ", "*", " ", "F", "R", "O", "M", " ", "i", "n", "v", "e", "n", "t", "o", "r", "y", " ", "W", "H", "E", "R", "E", " ", "s", "u", "p", "p", "l", "i", "e", "r", "_", "i", "d", " ", "=", " ", "T", "P", "A", "-", "0", "0", "1">>
      [] s = "purchase_orders of TPA-001" ->
            <<"p", "u", "r", "c", "h", "a", "s", "e", "_", "o", "r", "d", "e", "r", "s", " ", "o", "f", " ", "T", "P", "A", "-", "0", "0", "1">>
      [] s = "purchase_orders in_transit" ->
            <<"p", "u", "r", "c", "h", "a", "s", "e", "_", "o", "r", "d", "e", "r", "s", " ", "i", "n", "_", "t", "r", "a", "n", "s", "i", "t">>
      [] s = "purchase_orders of XYZ-999" ->
            <<"p", "u", "r", "c", "h", "a", "s", "e", "_", "o", "r", "d", "e", "r", "s", " ", "o", "f", " ", "X", "Y", "Z", "-", "9", "9", "9">>
      [] s = "open PO of ECG-002" ->
            <<"o", "p", "e", "n", " ", "P", "O", " ", "o", "f", " ", "E", "C", "G", "-", "0", "0", "2">>
      [] s = "all purchase_orders of ECG-002" ->
            <<"a", "l", "l", " ", "p", "u", "r", "c", "h", "a", "s", "e", "_", "o", "r", "d", "e", "r", "s", " ", "o", "f", " ", "E", "C", "G", "-", "0", "0", "2">>
      [] s = "stock of ECG-002" ->
            <<"s", "t", "o", "c", "k", " ", "o", "f", " ", "E", "C", "G", "-", "0", "0", "2">>
      [] s = "stock of SKU-MCU2200" ->
            <<"s", "t", "o", "c", "k", " ", "o", "f", " ", "S", "K", "U", "-", "M", "C", "U", "2", "2", "0", "0">>
      [] s = "stock of XYZ-999" ->
            <<"s", "t", "o", "c", "k", " ", "o", "f", " ", "X", "Y", "Z", "-", "9", "9", "9">>
      [] s = "all stock of ECG-002" ->
            <<"a", "l", "l", " ", "s", "t", "o", "c", "k", " ", "o", "f", " ", "E", "C", "G", "-", "0", "0", "2">>
      [] s = "components of TPA-001" ->
            <<"c", "o", "m", "p", "o", "n", "e", "n", "t", "s", " ", "o", "f", " ", "T", "P", "A", "-", "0", "0", "1">>
      [] s = "TPA-001" ->
            <<"T", "P", "A", "-", "0", "0", "1">>
      [] s = "ECG-002" ->
            <<"E", "C", "G", "-", "0", "0", "2">>
      [] s = "open" ->
            <<"o", "p", "e", "n">>
      [] s = "in_transit" ->
            <<"i", "n", "_", "t", "r", "a", "n", "s", "i", "t">>
      [] s = "SKU-MCU2200" ->
            <<"S", "K", "U", "-", "M", "C", "U", "2", "2", "0", "0">>
      [] s = "SKU-MCU3300" ->
            <<"S", "K", "U", "-", "M", "C", "U", "3", "3", "0", "0">>
      [] s = "SKU-RES10K" ->
            <<"S", "K", "U", "-", "R", "E", "S", "1", "0", "K">>
      [] s = "SKU-RES47K" ->
            <<"S", "K", "U", "-", "R", "E", "S", "4", "7", "K">>
      [] s = "SKU-CAP100" ->
            <<"S", "K", "U", "-", "C", "A", "P", "1", "0", "0">>
      [] s = "SKU-IND100" ->
            <<"S", "K", "U", "-", "I", "N", "D", "1", "0", "0">>
      [] s = "all" ->
            <<"a", "l", "l">>
      [] s = "*" ->
            <<"*">>
      [] s = "purchase_order" ->
            <<"p", "u", "r", "c", "h", "a", "s", "e", "_", "o", "r", "d", "e", "r">>
      [] s = "po" ->
            <<"p", "o">>

UpperCase == <<"A", "B", "C", "D", "E", "F", "G", "H", "I", "J", "K", "L", "M",
               "N", "O", "P", "Q", "R", "S", "T", "U", "V", "W", "X", "Y", "Z">>
LowerCase == <<"a", "b", "c", "d", "e", "f", "g", "h", "i", "j", "k", "l", "m",
               "n", "o", "p", "q", "r", "s", "t", "u", "v", "w", "x", "y", "z">>

\* str.lower(), on the characters
lower(cs) ==
    [i \in 1..Len(cs) |->
       IF \E u \in 1..26 : UpperCase[u] = cs[i]
          THEN LowerCase[CHOOSE u \in 1..26 : UpperCase[u] = cs[i]]
          ELSE cs[i]]

\* val in text: val occurs in text as a run of adjacent characters
In(val, text) ==
    \E i \in 0..(Len(text) - Len(val)) : SubSeq(text, i + 1, i + Len(val)) = val

\* {"sku": sku_id, **data}
WithSku(entry) == [sku |-> entry[1]] @@ entry[2]

\* mutant: a query that matches no record returns the empty list
query_inventory_db_NoFallback(sql) ==
    LET sql_lower == lower(Chars(sql))
        wild == In(Chars("all"), sql_lower) \/ In(Chars("*"), sql_lower)
    IN IF In(Chars("purchase_order"), sql_lower) \/ In(Chars("po"), sql_lower)
          THEN Returns("json_list",
                 SelectSeq(tables.PURCHASE_ORDERS,
                           LAMBDA po : \/ In(lower(Chars(po.supplier_id)), sql_lower)
                                       \/ In(lower(Chars(po.status)), sql_lower)
                                       \/ wild))
          ELSE LET inventory == tables.INVENTORY_DATA
                   selected == SelectSeq(inventory,
                                 LAMBDA e : \/ In(lower(Chars(e[2].supplier_id)), sql_lower)
                                            \/ In(lower(Chars(e[1])), sql_lower)
                                            \/ wild)
               IN Returns("json_list", [i \in 1..Len(selected) |-> WithSku(selected[i])])

\* the purchase orders (when the text holds 'purchase_order' or 'po') or the
\* inventory entries that the lower-cased text names by supplier id, by status
\* or SKU id, or with 'all' or '*'; the whole table when it names none
query_inventory_db(sql) ==
    LET sql_lower == lower(Chars(sql))
        wild == In(Chars("all"), sql_lower) \/ In(Chars("*"), sql_lower)
    IN IF In(Chars("purchase_order"), sql_lower) \/ In(Chars("po"), sql_lower)
          THEN LET results == SelectSeq(tables.PURCHASE_ORDERS,
                                LAMBDA po : \/ In(lower(Chars(po.supplier_id)), sql_lower)
                                            \/ In(lower(Chars(po.status)), sql_lower)
                                            \/ wild)
               IN Returns("json_list",
                          IF results = << >> THEN tables.PURCHASE_ORDERS ELSE results)
          ELSE LET inventory == tables.INVENTORY_DATA
                   selected == SelectSeq(inventory,
                                 LAMBDA e : \/ In(lower(Chars(e[2].supplier_id)), sql_lower)
                                            \/ In(lower(Chars(e[1])), sql_lower)
                                            \/ wild)
                   results == IF selected = << >> THEN inventory ELSE selected
               IN Returns("json_list", [i \in 1..Len(results) |-> WithSku(results[i])])

\* The remaining tools (search_sop_wiki, draft_response_plan) read the tables
\* or nothing at all: their string is a function of the arguments, kept here
\* as the validated arguments themselves.
ReadOnlyLookup(name, args) == Returns(name, args)

\* mutant: the pricing entry is taken out of the table when it is looked up
TablesAfter_PricingPopped(name, args) ==
    IF name = "get_supplier_pricing"
       THEN [tables EXCEPT !.SUPPLIER_PRICING =
               SelectSeq(@, LAMBDA e : e[1] # <<Get(args, "supplier_id").s,
                                                 Get(args, "sku").s>>)]
       ELSE tables

\* mutant: update_purchase_order writes the new supplier into PURCHASE_ORDERS
TablesAfter_OrderWritten(name, args) ==
    IF name = "update_purchase_order"
       THEN [tables EXCEPT !.PURCHASE_ORDERS =
               [i \in 1..Len(@) |->
                  IF @[i].po_id = Get(args, "po_id").s
                     THEN [@[i] EXCEPT !.supplier_id = Get(args, "new_supplier").s]
                     ELSE @[i]]]
       ELSE tables

\* the tables after a tool function has run: no tool assigns to a table or
\* changes one in place (the world-changing tools only build their payload)
TablesAfter(name, args) == tables

\* the tool function behind a name of the catalog, applied to validated arguments
CallTool(name, args) ==
    CASE name = "search_supplier_docs" ->
            search_supplier_docs(Get(args, "query").s,
                                 IF HasKey(args, "top_k") THEN Get(args, "top_k").n ELSE 3)
      [] name = "load_disruption_history" ->
            load_disruption_history(Get(args, "disruption_type").s)
      [] name = "get_supplier_pricing" ->
            get_supplier_pricing(Get(args, "supplier_id").s, Get(args, "sku").s)
      [] name = "fetch_disruption_alerts" ->
            fetch_disruption_alerts(Get(args, "region").s, Get(args, "category").s)
      [] name = "calculate_financial_impact" ->
            calculate_financial_impact(Get(args, "affected_orders").s,
                                       Get(args, "alt_pricing").s)
      [] name = "send_notification" ->
            send_notification(Get(args, "channel").s, Get(args, "message").s,
                              Get(args, "recipients").s)
      [] name = "update_purchase_order" ->
            update_purchase_order(Get(args, "po_id").s, Get(args, "new_supplier").s,
                                  Get(args, "new_terms").s)
      [] name = "query_inventory_db" ->
            query_inventory_db(Get(args, "sql").s)
      [] OTHER -> ReadOnlyLookup(name, args)

-----------------------------------------------------------------------------
(* Messages.  Every message is a record of the same shape:                  *)
(*   human: text is the user's report;                                      *)
(*   ai:    text is the model's answer ("" when it gives none) and          *)
(*          tool_calls its requests, each [id, name, args];                 *)
(*   tool:  tool_call_id, name, status and the content (kind, data).        *)

\* a message that was given no id yet
NoId == 0

HumanMessage(text) ==
    [type |-> "human", id |-> NoId, text |-> text, tool_calls |-> << >>,
     tool_call_id |-> 0, name |-> "", status |-> "", kind |-> "", data |-> << >>]

SystemMessage(text) ==
    [type |-> "system", id |-> NoId, text |-> text, tool_calls |-> << >>,
     tool_call_id |-> 0, name |-> "", status |-> "", kind |-> "", data |-> << >>]

\* the fixed instruction of the agent (its opening line)
SYSTEM_PROMPT == "You are the Supply Chain Disruption Response Agent (SCDRA)."

AIMessage(id, text, tool_calls) ==
    [type |-> "ai", id |-> id, text |-> text, tool_calls |-> tool_calls,
     tool_call_id |-> 0, name |-> "", status |-> "", kind |-> "", data |-> << >>]

\* mutant: the result is not tagged with the id of the call it answers
ToolMessage_Untagged(kind, data, name, tool_call_id, status) ==
    [type |-> "tool", id |-> NoId, text |-> "", tool_calls |-> << >>,
     tool_call_id |-> 0, name |-> name, status |-> status,
     kind |-> kind, data |-> data]

ToolMessage(kind, data, name, tool_call_id, status) ==
    [type |-> "tool", id |-> NoId, text |-> "", tool_calls |-> << >>,
     tool_call_id |-> tool_call_id, name |-> name, status |-> status,
     kind |-> kind, data |-> data]

ToolCall(id, name, args) == [id |-> id, name |-> name, args |-> args]

\* the two reports a run is started with: the disruption report alone, and
\* the report with the user's explicit approval of the execution steps
Reports == {"report", "report, approved: notify and update the PO"}
RecordsApproval(m) ==
    m.type = "human" /\ m.text = "report, approved: notify and update the PO"

\* the largest id of a list of messages (0 for none)
MaxId(msgs) ==
    CHOOSE n \in {0} \cup {msgs[i].id : i \in 1..Len(msgs)} :
       \A i \in 1..Len(msgs) : msgs[i].id <= n

\* an id no message of the list carries (uuid4 in the library)
FreshId(msgs) == 1 + MaxId(msgs)

\* The reducer of State.messages.  Each new message without an id gets a fresh
\* one.  Then, in the order of the new messages: one whose id is already in
\* the list replaces that entry where it stands, any other is appended.  (New
\* messages that all come without an id all get fresh ones, so the merge
\* appends every one of them: that case is written out first.)
add_messages(left, right) ==
    IF \A k \in 1..Len(right) : right[k].id = NoId
       THEN left \o [k \in 1..Len(right) |-> [right[k] EXCEPT !.id = MaxId(left) + k]]
    ELSE
    LET base == Max(MaxId(left), MaxId(right))
        withId == [k \in 1..Len(right) |->
                     IF right[k].id = NoId
                        THEN [right[k] EXCEPT !.id = base + k]
                        ELSE right[k]]
        \* the last new message with this id
        Latest(id) ==
            withId[CHOOSE k \in 1..Len(withId) :
                      /\ withId[k].id = id
                      /\ \A l \in (k + 1)..Len(withId) : withId[l].id # id]
        newIds == {withId[k].id : k \in 1..Len(withId)}
        oldIds == {left[i].id : i \in 1..Len(left)}
        merged == [i \in 1..Len(left) |->
                     IF left[i].id \in newIds THEN Latest(left[i].id) ELSE left[i]]
        \* the new messages that are appended: first of their id, id not in left
        firsts == {k \in 1..Len(withId) :
                     /\ withId[k].id \notin oldIds
                     /\ \A l \in 1..(k - 1) : withId[l].id # withId[k].id}
        \* the k-th smallest index among firsts
        Nth(n) == CHOOSE k \in firsts : Cardinality({l \in firsts : l <= k}) = n
    IN merged \o [n \in 1..Cardinality(firsts) |-> Latest(withId[Nth(n)].id)]

-----------------------------------------------------------------------------
(* The router *)

END == "__end__"

\* mutant: an answer that carries text is taken as final
route_agent_output_TextIsFinal(msgs) ==
    LET last_message == msgs[Len(msgs)]
    IN IF last_message.type = "ai" /\ Len(last_message.tool_calls) > 0
          /\ last_message.text = ""
          THEN "tools"
          ELSE END

\* hasattr(last_message, "tool_calls"): only an AI message has the attribute
route_agent_output(msgs) ==
    LET last_message == msgs[Len(msgs)]
    IN IF last_message.type = "ai" /\ Len(last_message.tool_calls) > 0
          THEN "tools"
          ELSE END

-----------------------------------------------------------------------------
(* The tool node *)

\* what running one call gives: a ToolMessage, or an exception that the node
\* lets through
Pending == [done |-> FALSE, raised |-> FALSE, exc |-> "", msg |-> HumanMessage("")]
Output(msg) == [done |-> TRUE, raised |-> FALSE, exc |-> "", msg |-> msg]
ReRaised(exc) == [done |-> TRUE, raised |-> TRUE, exc |-> exc, msg |-> HumanMessage("")]

\* tool.invoke(call): the arguments are validated against args_schema, then the
\* tool function runs
ToolInvoke(name, args) ==
    IF ~ValidArgs(name, args) THEN Raises("ValidationError") ELSE CallTool(name, args)

\* mutant: the node does not handle the exceptions of tools
run_one_ErrorsLeaveNode(call, handle_errors) ==
    IF call.name \notin DOMAIN tools_by_name
       THEN Output(ToolMessage("invalid_tool_name", << >>, call.name, call.id, "error"))
    ELSE LET r == ToolInvoke(tools_by_name[call.name], call.args)
         IN IF r.raised
               THEN ReRaised(r.exc)
               ELSE Output(ToolMessage(r.kind, r.data, call.name, call.id, "success"))

\* mutant: a name that is not in the catalog is looked up all the same
run_one_UnknownRaises(call, handle_errors) ==
    IF call.name \notin DOMAIN tools_by_name
       THEN ReRaised("KeyError")
    ELSE LET r == ToolInvoke(tools_by_name[call.name], call.args)
         IN IF r.raised
               THEN IF handle_errors
                       THEN Output(ToolMessage("tool_error", << <<"exception", StrV(r.exc)>> >>,
                                               call.name, call.id, "error"))
                       ELSE ReRaised(r.exc)
               ELSE Output(ToolMessage(r.kind, r.data, call.name, call.id, "success"))

\* ToolNode on one call: an unknown name becomes an error message; an
\* exception out of tool.invoke becomes an error message when the node handles
\* tool errors, and leaves the node otherwise.
run_one(call, handle_errors) ==
    IF call.name \notin DOMAIN tools_by_name
       THEN Output(ToolMessage("invalid_tool_name", << >>, call.name, call.id, "error"))
    ELSE LET r == ToolInvoke(tools_by_name[call.name], call.args)
         IN IF r.raised
               THEN IF handle_errors
                       THEN Output(ToolMessage("tool_error", << <<"exception", StrV(r.exc)>> >>,
                                               call.name, call.id, "error"))
                       ELSE ReRaised(r.exc)
               ELSE Output(ToolMessage(r.kind, r.data, call.name, call.id, "success"))

\* the tables after the tool node has run one call: the tool function runs
\* only for a known name and valid arguments
run_one_tables(call) ==
    IF call.name \in DOMAIN tools_by_name
       /\ ValidArgs(tools_by_name[call.name], call.args)
       THEN TablesAfter(tools_by_name[call.name], call.args)
       ELSE tables

\* ToolNode(ALL_TOOLS) is built with the default handle_tool_errors = True
handle_tool_errors == TRUE

\* the calls the tool node works on: those of the last message
PendingCalls == messages[Len(messages)].tool_calls

-----------------------------------------------------------------------------
(* The language model, an external service: what it may answer *)

\* the requests the model chooses from in a run: a name that is not in the
\* catalog, a read-only tool and a world-changing tool
ReadOnlyRequest ==
    <<"fetch_disruption_alerts",
      << <<"region", StrV("Asia")>>, <<"category", StrV("supplier_failure")>> >> >>

LoopRequests ==
    { <<"not_a_real_tool", << >> >>,
      ReadOnlyRequest,
      <<"send_notification",
        << <<"channel", StrV("slack")>>, <<"message", StrV("TPA-001 outage")>>,
           <<"recipients", StrV("procurement-team")>> >> >> }

\* the requests of a model that only asks for what fails: a name that is not
\* in the catalog, arguments without a required field, and arguments on which
\* the tool function raises
FaultyRequests ==
    { <<"not_a_real_tool", << >> >>,
      <<"fetch_disruption_alerts", << <<"category", StrV("supplier_failure")>> >> >>,
      <<"calculate_financial_impact",
        << <<"affected_orders", StrV("[1]")>>, <<"alt_pricing", StrV("[]")>> >> >> }

RequestsOf(mode) == IF mode = "faulty" THEN FaultyRequests ELSE LoopRequests

SeqsUpTo(S, n) == UNION {[1..k -> S] : k \in 0..n}

\* tool-call ids are the provider's: distinct within a run
RECURSIVE CountCalls(_)
CountCalls(msgs) ==
    IF msgs = << >> THEN 0 ELSE Len(Head(msgs).tool_calls) + CountCalls(Tail(msgs))

WithIds(reqs, base) ==
    [i \in 1..Len(reqs) |-> ToolCall(base + i, reqs[i][1], reqs[i][2])]

ApprovalRecorded(msgs) == \E i \in 1..Len(msgs) : RecordsApproval(msgs[i])

\* what the model double of the run may answer: "any" and "faulty" answer
\* anything (over their requests), "always_tools" requests at least one tool
\* in every answer, and "one_call" either requests the one read-only call or
\* gives its final answer
Allowed(text, reqs) ==
    /\ model_double = "always_tools" => reqs # << >>
    /\ model_double = "one_call" =>
          \/ reqs = << ReadOnlyRequest >> /\ text = ""
          \/ reqs = << >> /\ text = "answer"

\* the id of the model's message: the provider's when it sends one, which may
\* be new or one it has sent before, and otherwise none (the message then
\* gets a fresh id)
ResponseIds(msgs) ==
    IF llm_sets_id
       THEN {FreshId(msgs)} \cup {msgs[i].id : i \in {j \in 1..Len(msgs) : msgs[j].type = "ai"}}
       ELSE {NoId}

-----------------------------------------------------------------------------
(* The graph: START -> agent -> [route_agent_output] -> tools -> agent       *)

\* ChatGroq is built without max_retries: the client's default applies
max_retries == 2

\* what importing tools.py and graph.py sets up: the tables, the tools bound
\* to the model and the catalog of the tool node (a dict keyed by tool name)
ImportState ==
    /\ tables = ModuleTables
    /\ bound_tools = ALL_TOOLS
    /\ tools_by_name = [n \in ToolNames |-> n]

\* the sequence agent_node hands to the model
Prompt(msgs) == << SystemMessage(SYSTEM_PROMPT) >> \o msgs

InitRun(limits, modes, idModes) ==
    /\ \E text \in Reports : messages = add_messages(<< >>, << HumanMessage(text) >>)
    /\ pc = "agent"
    /\ step = 0
    /\ recursion_limit \in limits
    /\ model_double \in modes
    /\ llm_sets_id \in idModes
    /\ outputs = << >>
    /\ route = ""
    /\ agent_steps = 0
    /\ probe = << >>
    /\ ImportState
    /\ llm_requests = 0
    /\ llm_input = << >>

\* a run as the main program starts it: with the recursion limit as a
\* parameter and any model, with the largest such limit and the model whose
\* requests all fail, or with the main program's limit and the model that
\* makes one call per step; message ids are the library's (fresh)
Init ==
    \/ InitRun(1..MaxLimit, {"any", "always_tools"}, {FALSE})
    \/ InitRun({MaxLimit}, {"faulty"}, {FALSE})
    \/ InitRun({DefaultRecursionLimit}, {"one_call"}, {FALSE})

\* agent_node, the reducer and the conditional edge after it
AgentStep ==
    /\ pc = "agent"
    /\ step < recursion_limit
    /\ \E text \in {"", "answer"}, reqs \in SeqsUpTo(RequestsOf(model_double), MaxCalls),
          id \in ResponseIds(messages) :
          /\ Allowed(text, reqs)
          /\ LET response == AIMessage(id, text, WithIds(reqs, CountCalls(messages)))
                 new == add_messages(messages, << response >>)
             IN /\ messages' = new
                /\ route' = route_agent_output(new)
                /\ pc' = IF route_agent_output(new) = "tools" THEN "tools" ELSE "done"
                /\ outputs' = IF route_agent_output(new) = "tools"
                                 THEN [i \in 1..Len(new[Len(new)].tool_calls) |-> Pending]
                                 ELSE << >>
    /\ step' = step + 1
    /\ agent_steps' = agent_steps + 1
    /\ llm_input' = Prompt(messages)
    /\ llm_requests' = 0
    /\ UNCHANGED <<recursion_limit, model_double, llm_sets_id, probe, env>>

\* mutant: the client retries once more than max_retries
RequestRetried_OneMore ==
    /\ pc = "agent"
    /\ step < recursion_limit
    /\ model_double = "any"
    /\ llm_requests <= max_retries
    /\ llm_requests' = llm_requests + 1
    /\ llm_input' = Prompt(messages)
    /\ UNCHANGED <<messages, pc, step, recursion_limit, model_double, llm_sets_id,
                   outputs, route, agent_steps, probe, env>>

\* a request of llm_with_tools.invoke fails with an error the client retries
\* (rate limit, timeout, connection or server error) and retries are left:
\* the client sends the request again
RequestRetried ==
    /\ pc = "agent"
    /\ step < recursion_limit
    /\ model_double = "any"
    /\ llm_requests < max_retries
    /\ llm_requests' = llm_requests + 1
    /\ llm_input' = Prompt(messages)
    /\ UNCHANGED <<messages, pc, step, recursion_limit, model_double, llm_sets_id,
                   outputs, route, agent_steps, probe, env>>

\* llm_with_tools.invoke raises (an error the client does not retry, or the
\* last retry failed): the exception leaves agent_node and app.invoke
AgentFails ==
    /\ pc = "agent"
    /\ step < recursion_limit
    /\ model_double = "any"
    /\ pc' = "llm_error"
    /\ llm_requests' = llm_requests + 1
    /\ llm_input' = Prompt(messages)
    /\ UNCHANGED <<messages, step, recursion_limit, model_double, llm_sets_id,
                   outputs, route, agent_steps, probe, env>>

\* the tool node runs call i on a pool thread; the calls of one message are
\* submitted together and finish in any order
RunCall(i) ==
    /\ pc = "tools"
    /\ step < recursion_limit
    /\ i \in 1..Len(outputs)
    /\ ~outputs[i].done
    /\ outputs' = [outputs EXCEPT ![i] = run_one(PendingCalls[i], handle_tool_errors)]
    /\ tables' = run_one_tables(PendingCalls[i])
    /\ UNCHANGED <<messages, pc, step, recursion_limit, model_double, llm_sets_id,
                   route, agent_steps, probe, bound_tools, tools_by_name,
                   llm_requests, llm_input>>

\* mutant: the results are returned last call first
BatchMessages_Reversed(outs) == [i \in 1..Len(outs) |-> outs[Len(outs) + 1 - i].msg]

\* the list the tool node returns: the message of each call, in call order
BatchMessages(outs) == [i \in 1..Len(outs) |-> outs[i].msg]

\* mutant: a batch with an error result ends the run
ToolsReturn_EndsOnError ==
    /\ pc = "tools"
    /\ step < recursion_limit
    /\ \A i \in 1..Len(outputs) : outputs[i].done
    /\ LET raised == \E i \in 1..Len(outputs) : outputs[i].raised
           failed == \E i \in 1..Len(outputs) : outputs[i].msg.status = "error"
       IN /\ messages' = IF raised THEN messages
                         ELSE add_messages(messages, BatchMessages(outputs))
          /\ pc' = IF raised THEN "tool_exception" ELSE IF failed THEN "done" ELSE "agent"
          /\ step' = IF raised THEN step ELSE step + 1
    /\ outputs' = << >>
    /\ UNCHANGED <<recursion_limit, model_double, llm_sets_id, route, agent_steps,
                   probe, env, llm_requests, llm_input>>

\* the tool node returns {"messages": outputs}: the reducer adds them in call
\* order and the edge tools -> agent is taken; an exception a call let through
\* leaves the node instead and nothing is written
ToolsReturn ==
    /\ pc = "tools"
    /\ step < recursion_limit
    /\ \A i \in 1..Len(outputs) : outputs[i].done
    /\ LET raised == \E i \in 1..Len(outputs) : outputs[i].raised
       IN /\ messages' = IF raised THEN messages
                         ELSE add_messages(messages, BatchMessages(outputs))
          /\ pc' = IF raised THEN "tool_exception" ELSE "agent"
          /\ step' = IF raised THEN step ELSE step + 1
    /\ outputs' = << >>
    /\ UNCHANGED <<recursion_limit, model_double, llm_sets_id, route, agent_steps,
                   probe, env, llm_requests, llm_input>>

\* mutant: the limit is only found exceeded, never reached
RecursionLimitReached_Late ==
    /\ pc \in {"agent", "tools"}
    /\ step > recursion_limit
    /\ pc' = "recursion_error"
    /\ outputs' = << >>
    /\ UNCHANGED <<messages, step, recursion_limit, model_double, llm_sets_id,
                   route, agent_steps, probe, env, llm_requests, llm_input>>

\* mutant: the error is raised one superstep early
RecursionLimitReached_Early ==
    /\ pc \in {"agent", "tools"}
    /\ step + 1 >= recursion_limit
    /\ pc' = "recursion_error"
    /\ outputs' = << >>
    /\ UNCHANGED <<messages, step, recursion_limit, model_double, llm_sets_id,
                   route, agent_steps, probe, env, llm_requests, llm_input>>

\* mutant: the limit is checked only when the agent is due
RecursionLimitReached_AgentOnly ==
    /\ pc = "agent"
    /\ step >= recursion_limit
    /\ pc' = "recursion_error"
    /\ outputs' = << >>
    /\ UNCHANGED <<messages, step, recursion_limit, model_double, llm_sets_id,
                   route, agent_steps, probe, env, llm_requests, llm_input>>

\* a node is due and recursion_limit supersteps were executed: GraphRecursionError
RecursionLimitReached ==
    /\ pc \in {"agent", "tools"}
    /\ step >= recursion_limit
    /\ pc' = "recursion_error"
    /\ outputs' = << >>
    /\ UNCHANGED <<messages, step, recursion_limit, model_double, llm_sets_id,
                   route, agent_steps, probe, env, llm_requests, llm_input>>

Next ==
    \/ AgentStep
    \/ RequestRetried
    \/ AgentFails
    \/ \E i \in 1..MaxCalls : RunCall(i)
    \/ ToolsReturn
    \/ RecursionLimitReached

Spec == Init /\ [][Next]_vars

\* what the main program prints: result["messages"] when app.invoke returns;
\* an exception out of app.invoke is not caught and nothing is printed
Transcript == IF pc = "done" THEN messages ELSE << >>

\* the graph runs a due node and returns or raises without waiting forever
FairSpec == Spec /\ WF_vars(Next)

\* mutant: an interrupt writes the results it finds to the history
Interrupt_FlushesResults ==
    /\ pc \in {"agent", "tools"}
    /\ pc' = "interrupted"
    /\ messages' = add_messages(messages,
                      BatchMessages(SelectSeq(outputs, LAMBDA o : o.done /\ ~o.raised)))
    /\ UNCHANGED <<step, recursion_limit, model_double, llm_sets_id, outputs,
                   route, agent_steps, probe, env, llm_requests, llm_input>>

\* The process is interrupted (SIGINT) while app.invoke runs: the main program
\* sets no handler and catches nothing, so KeyboardInterrupt is raised
\* wherever the run stands, also while the tool node works on a batch, and
\* leaves app.invoke; what the nodes had not returned yet is dropped.
Interrupt ==
    /\ pc \in {"agent", "tools"}
    /\ pc' = "interrupted"
    /\ UNCHANGED <<messages, step, recursion_limit, model_double, llm_sets_id,
                   outputs, route, agent_steps, probe, env, llm_requests, llm_input>>

NextInterrupt == Next \/ Interrupt

\* a run that may be interrupted
InitInterrupt == InitRun(1..MaxLimit, {"any"}, {FALSE})
SpecInterrupt == InitInterrupt /\ [][NextInterrupt]_vars

\* the same run when the provider's response carries a message id of its own
InitAnyId == InitRun(1..MaxLimit, {"any", "always_tools"}, {TRUE})
SpecAnyId == InitAnyId /\ [][Next]_vars

-----------------------------------------------------------------------------
(* The tools on their own: single calls handed to the tool node *)

\* most calls made one after the other
MaxProbes == 1

Args2(k1, v1, k2, v2) == << <<k1, v1>>, <<k2, v2>> >>
Args3(k1, v1, k2, v2, k3, v3) == << <<k1, v1>>, <<k2, v2>>, <<k3, v3>> >>

\* the calls of a session: every tool of the catalog, the pricing tool for a
\* pair SUPPLIER_PRICING holds, for another one and for one it does not hold
SessionCalls ==
    { <<"search_supplier_docs", << <<"query", StrV("alternative MCU supplier")>> >> >>,
      <<"query_inventory_db",
        << <<"sql", StrV("SELECT * FROM purchase_orders WHERE status = open")>> >> >>,
      ReadOnlyRequest,
      <<"load_disruption_history", << <<"disruption_type", StrV("supplier_failure")>> >> >>,
      <<"get_supplier_pricing",
        Args2("supplier_id", StrV("TPA-001"), "sku", StrV("SKU-MCU2200"))>>,
      <<"get_supplier_pricing",
        Args2("supplier_id", StrV("ALT-003"), "sku", StrV("SKU-MCU2200"))>>,
      <<"get_supplier_pricing",
        Args2("supplier_id", StrV("TPA-001"), "sku", StrV("SKU-RES10K"))>>,
      <<"search_sop_wiki", << <<"query", StrV("supplier failure response")>> >> >>,
      <<"calculate_financial_impact",
        Args2("affected_orders", StrV("[{\"total_value\": 100}]"), "alt_pricing", StrV("{}"))>>,
      <<"draft_response_plan", << <<"context", StrV("TPA-001 factory fire")>> >> >>,
      <<"send_notification",
        Args3("channel", StrV("slack"), "message", StrV("TPA-001 outage"),
              "recipients", StrV("procurement-team"))>>,
      <<"update_purchase_order",
        Args3("po_id", StrV("PO-2024-001"), "new_supplier", StrV("ALT-003"),
              "new_terms", StrV("{}"))>> }

\* most calls of a session
MaxSession == 3

\* values of top_k: below, at and above the ends of 1..10
TopKs == {0 - 1, 0, 1, 3, 10, 11}

ProbeCalls ==
    { <<"calculate_financial_impact",
        Args2("affected_orders", StrV(a), "alt_pricing", StrV(b))>> :
          a \in JsonStrings, b \in JsonStrings }
    \cup { <<"fetch_disruption_alerts", Args2("region", r, "category", StrV(c))>> :
             r \in {StrV(""), StrV("Asia"), StrV("Europe"), StrV("Global"), Null},
             c \in {"supplier_failure", "logistics_delay", "quality_recall"} }
    \cup { <<"fetch_disruption_alerts", << <<"category", StrV("supplier_failure")>> >> >>,
           <<"not_a_real_tool", << >> >>,
           <<"send_notification",
             Args3("channel", StrV("slack"), "message", StrV("TPA-001 outage"),
                   "recipients", StrV("procurement-team"))>>,
           <<"update_purchase_order",
             Args3("po_id", StrV("PO-2024-001"), "new_supplier", StrV("ALT-003"),
                   "new_terms", StrV("{}"))>>,
           <<"update_purchase_order",
             Args3("po_id", StrV("PO-2024-003"), "new_supplier", StrV("ALT-004"),
                   "new_terms", StrV("{}"))>>,
           <<"update_purchase_order",
             Args3("po_id", StrV("PO-0000-000"), "new_supplier", StrV("ALT-004"),
                   "new_terms", StrV("{}"))>> }
    \cup { <<"search_supplier_docs",
             Args2("query", StrV("alternative MCU supplier"), "top_k", IntV(k))>> :
               k \in TopKs }
    \cup { <<"search_supplier_docs", << <<"query", StrV("alternative MCU supplier")>> >> >>,
           <<"search_supplier_docs",
             Args2("query", StrV("alternative MCU supplier"), "top_k", StrV("3"))>> }
    \cup { <<"send_notification",
             Args3("channel", StrV(c), "message", StrV(m), "recipients", StrV(r))>> :
               c \in {"slack", "email"}, m \in {"", "TPA-001 outage"},
               r \in {"", "procurement-team, logistics-team"} }
    \cup { <<"send_notification",
             Args2("channel", StrV("slack"), "message", StrV("TPA-001 outage"))>>,
           <<"update_purchase_order",
             Args3("po_id", StrV(""), "new_supplier", StrV(""), "new_terms", StrV("not json"))>>,
           <<"update_purchase_order",
             Args3("po_id", StrV("PO-2024-001"), "new_supplier", Null,
                   "new_terms", StrV("{}"))>> }
    \cup { <<"query_inventory_db", << <<"sql", StrV(q)>> >> >> : q \in SqlTexts }
    \cup SessionCalls


InitTools ==
    /\ messages = add_messages(<< >>, << HumanMessage("report") >>)
    /\ pc = "tools_only"
    /\ step = 0
    /\ recursion_limit = DefaultRecursionLimit
    /\ model_double = "any"
    /\ llm_sets_id = FALSE
    /\ outputs = << >>
    /\ route = ""
    /\ agent_steps = 0
    /\ probe = << >>
    /\ ImportState
    /\ llm_requests = 0
    /\ llm_input = << >>

\* one call: what tool.invoke does with it (when the name is a tool's) and
\* what the tool node makes of it
InvokeTool ==
    /\ pc \in {"tools_only", "session"}
    /\ Len(probe) < (IF pc = "session" THEN MaxSession ELSE MaxProbes)
    /\ \E req \in (IF pc = "session" THEN SessionCalls ELSE ProbeCalls) :
          LET call == ToolCall(Len(probe) + 1, req[1], req[2])
          IN /\ probe' = Append(probe,
                 [call |-> call,
                  known |-> call.name \in DOMAIN tools_by_name,
                  tool |-> IF call.name \in DOMAIN tools_by_name
                              THEN ToolInvoke(tools_by_name[call.name], call.args)
                              ELSE Raises(""),
                  out |-> run_one(call, handle_tool_errors)])
             /\ tables' = run_one_tables(call)
    /\ UNCHANGED <<messages, pc, step, recursion_limit, model_double, llm_sets_id,
                   outputs, route, agent_steps, bound_tools, tools_by_name,
                   llm_requests, llm_input>>

SpecTools == InitTools /\ [][InvokeTool]_vars

\* several calls one after the other in one process
InitSession ==
    /\ messages = add_messages(<< >>, << HumanMessage("report") >>)
    /\ pc = "session"
    /\ step = 0
    /\ recursion_limit = DefaultRecursionLimit
    /\ model_double = "any"
    /\ llm_sets_id = FALSE
    /\ outputs = << >>
    /\ route = ""
    /\ agent_steps = 0
    /\ probe = << >>
    /\ ImportState
    /\ llm_requests = 0
    /\ llm_input = << >>

SpecSession == InitSession /\ [][InvokeTool]_vars

-----------------------------------------------------------------------------
(* Reading a history *)

IsAI(msgs, i) == msgs[i].type = "ai"
IsTool(msgs, i) == msgs[i].type = "tool"

\* the entries after AI message i up to the next AI message
BlockOf(msgs, i) ==
    {j \in (i + 1)..Len(msgs) : \A k \in (i + 1)..j : ~IsAI(msgs, k)}

\* AI message i is followed by another AI message
HasLaterAI(msgs, i) == \E j \in (i + 1)..Len(msgs) : IsAI(msgs, j)

\* the results in the block of AI message i that answer the call with this id
ResultsFor(msgs, i, call_id) ==
    {j \in BlockOf(msgs, i) : IsTool(msgs, j) /\ msgs[j].tool_call_id = call_id}

IsPrefix(s, t) == Len(s) <= Len(t) /\ \A i \in 1..Len(s) : s[i] = t[i]

-----------------------------------------------------------------------------
C2_RouterReadsTailOnly ==
    (route # "" /\ IsAI(messages, Len(messages))) =>
       LET tail == messages[Len(messages)]
       IN /\ route = IF Len(tail.tool_calls) >= 1 THEN "tools" ELSE END
          /\ \A k \in 1..Len(messages) :
                route_agent_output(SubSeq(messages, k, Len(messages))) = route

\* the router sent an answer with text and a tool call to the tool node
C2_Witness ==
    /\ route = "tools"
    /\ IsAI(messages, Len(messages))
    /\ messages[Len(messages)].text = "answer"
    /\ Len(messages[Len(messages)].tool_calls) >= 1

(* C3: the history is append-only over a run: every step leaves the history  *)
(* it found as a prefix of the history it leaves, also when the model's new   *)
(* message carries the id of an entry that is already recorded.               *)
C3_AppendOnly == [][IsPrefix(messages, messages')]_vars

\* what a run can still do: supersteps left within the limit, calls of the
\* current batch not yet run, and the end of the run itself
WorkLeft ==
    (MaxCalls + 2) * (recursion_limit - step)
    + Cardinality({i \in 1..Len(outputs) : ~outputs[i].done})
    + (IF pc \in {"agent", "tools"} THEN 1 ELSE 0)

C5_OnlyAgentStepsCount ==
    /\ step = agent_steps
    /\ pc = "recursion_error" => agent_steps = recursion_limit

(* C5 as amended: every node execution uses one unit of the budget, the      *)
(* agent's and the tool node's alike, so after k agent steps 2k - 1 or 2k    *)
(* units are used; the budget is never overdrawn, the limit error is raised  *)
(* only with the whole budget used, and a run of budget B makes at most      *)
(* (B + 1) div 2 agent steps.                                                *)
C5_EveryNodeCounts ==
    /\ step <= recursion_limit
    /\ agent_steps = (step + 1) \div 2
    /\ pc \in {"tools", "done"} => step = 2 * agent_steps - 1
    /\ pc \in {"agent", "llm_error"} => step = 2 * agent_steps
    /\ pc = "recursion_error" => step = recursion_limit
    /\ agent_steps <= (recursion_limit + 1) \div 2

\* the main program's limit of 25 is used up by 13 agent steps and 12 tool steps
C5_Witness ==
    /\ recursion_limit = DefaultRecursionLimit
    /\ pc = "recursion_error"
    /\ agent_steps = 13
    /\ step = 25

\* the calls of the batch the tool node works on whose name is no tool's
UnknownCalls == {i \in 1..Len(PendingCalls) : PendingCalls[i].name \notin ToolNames}

(* C6: when the tool node finishes a batch that holds a call to a name that  *)
(* is not in the catalog, no exception leaves the node: the agent is the     *)
(* next node, and the history gained, for each such call, a tool message     *)
(* with status error, the invalid-tool-name content and that call's id.      *)
C6_UnknownToolIsAnErrorMessage ==
    [][(pc = "tools" /\ pc' \notin {"tools", "recursion_error"} /\ UnknownCalls # {}) =>
          /\ pc' = "agent"
          /\ \A i \in UnknownCalls :
                \E j \in (Len(messages) + 1)..Len(messages') :
                   /\ messages'[j].type = "tool"
                   /\ messages'[j].tool_call_id = PendingCalls[i].id
                   /\ messages'[j].name = PendingCalls[i].name
                   /\ messages'[j].status = "error"
                   /\ messages'[j].kind = "invalid_tool_name"]_vars

\* the tool node has answered a call to not_a_real_tool and the agent is next
C6_Witness ==
    /\ pc = "agent"
    /\ messages[Len(messages)].type = "tool"
    /\ messages[Len(messages)].name = "not_a_real_tool"
    /\ messages[Len(messages)].kind = "invalid_tool_name"

\* the calls made of fetch_disruption_alerts with the empty string as region
EmptyRegionProbes ==
    {k \in 1..Len(probe) :
        /\ probe[k].call.name = "fetch_disruption_alerts"
        /\ HasKey(probe[k].call.args, "region")
        /\ HasKey(probe[k].call.args, "category")
        /\ Get(probe[k].call.args, "region") = StrV("")}

(* C7 as stated: fetch_disruption_alerts with region "" gives a validation   *)
(* error as the tool result, never a normal alert payload.                   *)
C7_EmptyRegionRejected ==
    \A k \in EmptyRegionProbes :
       /\ probe[k].out.done /\ ~probe[k].out.raised
       /\ probe[k].out.msg.status = "error"
       /\ probe[k].out.msg.kind = "tool_error"
       /\ Get(probe[k].out.msg.data, "exception") = StrV("ValidationError")

(* C7 as amended: fetch_disruption_alerts with region "" passes validation   *)
(* (the schema asks for a string, not a non-empty one) and gives the normal  *)
(* alert payload, with the empty region in it; nothing is raised.            *)
C7_EmptyRegionAccepted ==
    \A k \in EmptyRegionProbes :
       /\ ~probe[k].tool.raised
       /\ probe[k].out.done /\ ~probe[k].out.raised
       /\ probe[k].out.msg.status = "success"
       /\ probe[k].out.msg.kind = "json"
       /\ Get(probe[k].out.msg.data, "alert_id") = StrV("ALERT-2025-0042")
       /\ Get(probe[k].out.msg.data, "region") = StrV("")

\* fetch_disruption_alerts was called with region ""
C7_Witness == EmptyRegionProbes # {}

(* C8: whatever two strings calculate_financial_impact is given, it returns  *)
(* a structured payload (the impact or an error object): no exception leaves *)
(* the tool function, and none leaves the tool node.                         *)
C8_ImpactToolNeverRaises ==
    \A k \in 1..Len(probe) :
       probe[k].call.name = "calculate_financial_impact" =>
          /\ ~probe[k].tool.raised
          /\ ~probe[k].out.raised
          /\ probe[k].out.msg.kind = "json"

\* a tool message that records a world-changing tool as carried out
Executed(m) ==
    /\ m.type = "tool"
    /\ m.status = "success"
    /\ m.kind = "json"
    /\ HasKey(m.data, "status")
    /\ Get(m.data, "status").s \in {"sent", "updated"}

(* C9: no world-changing tool is carried out unless an earlier message of    *)
(* the history records the user's approval: a history without an approval    *)
(* message holds no result of send_notification or update_purchase_order     *)
(* that reports the action as done.                                          *)
C9_NoExecutionWithoutApproval ==
    \A j \in 1..Len(messages) :
       Executed(messages[j]) => \E i \in 1..(j - 1) : RecordsApproval(messages[i])

(* C10 as stated: the calls of one AI message are run in call order, and the *)
(* result of a call is in the history before the next call begins.           *)
C10_ResultAppendedBeforeNextCall ==
    pc = "tools" =>
       \A i \in 1..(Len(outputs) - 1) :
          outputs[i + 1].done =>
             /\ outputs[i].done
             /\ ResultsFor(messages, Len(messages), PendingCalls[i].id) # {}

(* C10 as amended: the calls of one AI message may run in any order; while   *)
(* the tool node works nothing is appended (the history still ends with the  *)
(* AI message), and once the node has returned the results stand right after *)
(* the AI message, the c-th result answering the c-th call.                  *)
C10_ResultsInCallOrder ==
    /\ pc = "tools" => IsAI(messages, Len(messages))
    /\ \A i \in 1..Len(messages) :
          (IsAI(messages, i) /\ (HasLaterAI(messages, i) \/ pc = "agent")) =>
             \A c \in 1..Len(messages[i].tool_calls) :
                /\ i + c <= Len(messages)
                /\ IsTool(messages, i + c)
                /\ messages[i + c].tool_call_id = messages[i].tool_calls[c].id
                /\ messages[i + c].name = messages[i].tool_calls[c].name

\* a batch of two different calls was answered and the agent is next
C10_Witness ==
    /\ pc = "agent"
    /\ Len(messages) >= 3
    /\ IsAI(messages, Len(messages) - 2)
    /\ Len(messages[Len(messages) - 2].tool_calls) = 2
    /\ messages[Len(messages) - 1].name # messages[Len(messages)].name

\* the states of the loop: a node is due (agent, tools) or the run has ended
\* at END (done); every other value of pc is a run aborted by an exception
LoopStates == {"agent", "tools", "done"}

(* C11: the run starts with the agent due; among the loop states control     *)
(* moves only agent -> tools (the router said "tools"), agent -> done (the   *)
(* router said END) and tools -> agent; the tool node, once it has run its   *)
(* batch, hands over to the agent whatever the results are; nothing changes  *)
(* once the run is done.                                                     *)
C11_OnlyLoopTransitions ==
    /\ [](step = 0 => pc \in {"agent", "llm_error"})
    /\ [][/\ (pc' \in LoopStates /\ pc' # pc) =>
                \/ pc = "agent" /\ pc' = "tools" /\ route' = "tools"
                \/ pc = "agent" /\ pc' = "done" /\ route' = END
                \/ pc = "tools" /\ pc' = "agent"
          /\ (pc = "tools" /\ step' = step + 1) => pc' = "agent"
          /\ pc = "done" => (pc' = "done" /\ messages' = messages)]_vars

\* a run that ended at END after the tool node had returned an error result
C11_Witness ==
    /\ pc = "done"
    /\ \E i \in 1..Len(messages) : IsTool(messages, i) /\ messages[i].status = "error"

\* calls k and l of the session are get_supplier_pricing with the same arguments
SamePricingCall(k, l) ==
    /\ probe[k].call.name = "get_supplier_pricing"
    /\ probe[l].call.name = "get_supplier_pricing"
    /\ probe[k].call.args = probe[l].call.args

(* C12: two calls of get_supplier_pricing with the same supplier_id and sku  *)
(* in one session give the same payload, whatever tools were called between  *)
(* them (the world-changing ones included).                                  *)
C12_PricingIdempotent ==
    \A k \in 1..Len(probe) : \A l \in (k + 1)..Len(probe) :
       SamePricingCall(k, l) =>
          /\ probe[k].tool = probe[l].tool
          /\ probe[k].out.msg.kind = probe[l].out.msg.kind
          /\ probe[k].out.msg.data = probe[l].out.msg.data
          /\ probe[k].out.msg.status = probe[l].out.msg.status

\* the price of a pair the table holds was asked for before and after
\* update_purchase_order ran
C12_Witness ==
    /\ Len(probe) >= 3
    /\ SamePricingCall(1, 3)
    /\ probe[2].call.name = "update_purchase_order"
    /\ HasKey(probe[3].out.msg.data, "price")

\* the AI messages of a history
NumAI(msgs) == Cardinality({i \in 1..Len(msgs) : IsAI(msgs, i)})

Aborted == pc \in {"recursion_error", "llm_error", "tool_exception"}

\* the call cannot be carried out: no such tool, invalid arguments, or the
\* tool function raises
CallFails(call) ==
    \/ call.name \notin DOMAIN tools_by_name
    \/ ToolInvoke(tools_by_name[call.name], call.args).raised

(* C14 as stated: every error of a run is recorded as a message of the       *)
(* transcript the run produces: each failed tool call has an error message,  *)
(* and a run ended by the recursion limit or by a failure of the model has a *)
(* transcript that ends with a record of that error.                         *)
C14_EveryErrorInTranscript ==
    /\ \A i \in 1..(Len(messages) - 1) :
          IsAI(messages, i) =>
             \A c \in 1..Len(messages[i].tool_calls) :
                CallFails(messages[i].tool_calls[c]) =>
                   \E j \in ResultsFor(messages, i, messages[i].tool_calls[c].id) :
                      messages[j].status = "error"
    /\ Aborted =>
          /\ Transcript # << >>
          /\ Transcript[Len(Transcript)].status = "error"

(* C14 as amended: every failed tool call (unknown tool, invalid arguments,  *)
(* exception in the tool) is recorded in the history as an error message     *)
(* answering that call, and no tool error aborts the run.  A run ended by    *)
(* the recursion limit or by a failure of the model records nothing: no      *)
(* message of the history is about it, and the aborted run has no            *)
(* transcript; a run that ends at END has the whole history as transcript.   *)
C14_ToolErrorsRecordedAbortsNot ==
    /\ pc # "tool_exception"
    /\ \A i \in 1..(Len(messages) - 1) :
          IsAI(messages, i) =>
             \A c \in 1..Len(messages[i].tool_calls) :
                LET call == messages[i].tool_calls[c]
                IN /\ ResultsFor(messages, i, call.id) # {}
                   /\ \A j \in ResultsFor(messages, i, call.id) :
                         CallFails(call) <=> messages[j].status = "error"
    /\ \A j \in 1..Len(messages) :
          messages[j].status = "error" =>
             (IsTool(messages, j) /\ messages[j].kind \in {"invalid_tool_name", "tool_error"})
    /\ Aborted => Transcript = << >>
    /\ pc = "done" => Transcript = messages

\* a run ended by the recursion limit whose history records a call to an
\* unknown tool and an exception raised in a tool
C14_Witness ==
    /\ pc = "recursion_error"
    /\ \E j \in 1..Len(messages) : messages[j].kind = "invalid_tool_name"
    /\ \E j \in 1..Len(messages) :
          /\ messages[j].kind = "tool_error"
          /\ Get(messages[j].data, "exception") = StrV("AttributeError")

\* the tool node is in the middle of a batch: some calls have run, others not
MidBatch ==
    /\ pc = "tools"
    /\ \E i \in 1..Len(outputs) : outputs[i].done
    /\ \E i \in 1..Len(outputs) : ~outputs[i].done

\* the entries of the history that answer the calls of AI message i
AnswersTo(msgs, i) ==
    {j \in 1..Len(msgs) :
        /\ IsTool(msgs, j)
        /\ \E c \in 1..Len(msgs[i].tool_calls) :
              msgs[j].tool_call_id = msgs[i].tool_calls[c].id}

RanTool(k, name) ==
    /\ probe[k].call.name = name
    /\ ~probe[k].tool.raised
    /\ probe[k].out.msg.status = "success"

(* C16: after any sequence of tool calls, the world-changing tools included, *)
(* the five mock data tables are what they were after import.                *)
C16_TablesUnchanged ==
    /\ tables.INVENTORY_DATA = INVENTORY_DATA
    /\ tables.PURCHASE_ORDERS = PURCHASE_ORDERS
    /\ tables.DISRUPTION_HISTORY = DISRUPTION_HISTORY
    /\ tables.SUPPLIER_PRICING = SUPPLIER_PRICING
    /\ tables.SOP_CONTENT = SOP_CONTENT

\* update_purchase_order, send_notification and query_inventory_db have run,
\* in this order
C16_Witness ==
    /\ Len(probe) >= 3
    /\ RanTool(1, "update_purchase_order")
    /\ RanTool(2, "send_notification")
    /\ RanTool(3, "query_inventory_db")

\* the calls made of a world-changing tool with arguments its schema accepts
AcceptedWorldChanging ==
    {k \in 1..Len(probe) :
        /\ probe[k].call.name \in WorldChanging
        /\ ValidArgs(probe[k].call.name, probe[k].call.args)}

\* the two disclaimers: each says the action was simulated
MockDisclaimers ==
    { StrV("[MOCK] Notification simulated - no actual message sent."),
      StrV("[MOCK] PO update simulated - no actual ERP change made.") }

(* C17: for arguments their schemas accept, send_notification returns a      *)
(* payload with status "sent" and update_purchase_order one with status      *)
(* "updated", and both payloads carry a note that says the action was a      *)
(* mock simulation.                                                          *)
C17_StatusAndDisclaimer ==
    \A k \in AcceptedWorldChanging :
       /\ ~probe[k].tool.raised
       /\ probe[k].tool.kind = "json"
       /\ HasKey(probe[k].tool.data, "status")
       /\ Get(probe[k].tool.data, "status") =
             StrV(IF probe[k].call.name = "send_notification" THEN "sent" ELSE "updated")
       /\ HasKey(probe[k].tool.data, "note")
       /\ Get(probe[k].tool.data, "note") \in MockDisclaimers
       /\ probe[k].out.msg.data = probe[k].tool.data

\* send_notification was called with an empty message and no recipient
C17_Witness ==
    \E k \in AcceptedWorldChanging :
       /\ probe[k].call.name = "send_notification"
       /\ Get(probe[k].call.args, "message") = StrV("")
       /\ Get(probe[k].call.args, "recipients") = StrV("")

\* the calls made of search_supplier_docs with arguments its schema accepts
AcceptedSearches ==
    {k \in 1..Len(probe) :
        /\ probe[k].call.name = "search_supplier_docs"
        /\ ValidArgs("search_supplier_docs", probe[k].call.args)}

\* top_k of such a call: the value given, or the default
TopKOf(k) ==
    IF HasKey(probe[k].call.args, "top_k") THEN Get(probe[k].call.args, "top_k").n ELSE 3

(* C18: whatever integer top_k search_supplier_docs is called with, the      *)
(* number of results it asks the vector store for lies in 1..10: a top_k     *)
(* above 10, of 0 or below 0 is not passed on as given.                      *)
C18_ResultsRequestedWithinOneToTen ==
    \A k \in AcceptedSearches :
       LET request == VectorSearchRequest(Get(probe[k].call.args, "query").s, TopKOf(k))
       IN /\ request.n_results \in 1..10
          /\ TopKOf(k) \notin 1..10 => request.n_results # TopKOf(k)

\* the names of the tools bound to the model
BoundNames == {bound_tools[i] : i \in 1..Len(bound_tools)}

(* C19: in every state of a run the catalog holds ten tools with pairwise    *)
(* distinct names, the tool node's catalog holds the same tools as the list  *)
(* bound to the model, and no step of the run changes either.                *)
C19_CatalogOfTenFixed ==
    /\ [](/\ Len(bound_tools) = 10
          /\ Cardinality(BoundNames) = 10
          /\ DOMAIN tools_by_name = BoundNames
          /\ \A n \in BoundNames : tools_by_name[n] = n)
    /\ [][bound_tools' = bound_tools /\ tools_by_name' = tools_by_name]_vars

\* a run has ended after the tool node answered a call to a tool of the
\* catalog and a call to a name that is not in it
C19_Witness ==
    /\ pc = "done"
    /\ \E j \in 1..Len(messages) : IsTool(messages, j) /\ messages[j].status = "success"
    /\ \E j \in 1..Len(messages) : messages[j].kind = "invalid_tool_name"

(* C20: a step in which the agent node succeeds appends exactly one AI       *)
(* message to the history and leaves every earlier entry as it was; the      *)
(* system instruction stands first in the sequence handed to the model,      *)
(* ahead of the history, and is no entry of the history; nothing else of the *)
(* program's state (tables, catalog) changes.                                *)
C20_AgentStepAppendsOneMessage ==
    [][agent_steps' = agent_steps + 1 =>
          /\ Len(messages') = Len(messages) + 1
          /\ IsPrefix(messages, messages')
          /\ IsAI(messages', Len(messages'))
          /\ llm_input' = << SystemMessage(SYSTEM_PROMPT) >> \o messages
          /\ \A i \in 1..Len(messages') : messages'[i].type # "system"
          /\ UNCHANGED env]_vars

\* the run has stopped: at END, or aborted by the recursion limit or by a
\* failure of the model
Stopped == pc \in {"done", "recursion_error", "llm_error"}

\* a bound on the steps a run has left: the supersteps the limit still
\* allows, each with its calls and the client's retries, the calls of the
\* batch at hand, the retries of the agent step at hand and the last step
StepsLeft ==
    (MaxCalls + max_retries + 3) * (recursion_limit - step)
    + Cardinality({i \in 1..Len(outputs) : ~outputs[i].done})
    + (max_retries - llm_requests)
    + (IF Stopped THEN 0 ELSE 1)

(* C21: whatever the model answers (tool calls, text, failures, in any mix), *)
(* a run with a finite recursion limit stops, at END or with the             *)
(* recursion-limit error or the model's error: a run that has not stopped    *)
(* has the agent or the tool node due and can take a step, and every step    *)
(* uses up some of a bounded number of steps left, so agent and tools cannot *)
(* alternate forever; a run that has stopped takes no further step.          *)
C21_RunEventuallyStops ==
    /\ [](/\ pc \in {"agent", "tools"} \/ Stopped
          /\ ~Stopped => ENABLED Next
          /\ StepsLeft >= 0)
    /\ [][StepsLeft' < StepsLeft /\ ~Stopped]_vars

\* a run stopped by the recursion limit after the agent and the tool node
\* had alternated for as long as the limit allows
C21_Witness ==
    /\ pc = "recursion_error"
    /\ recursion_limit = MaxLimit
    /\ step = MaxLimit
    /\ agent_steps = (MaxLimit + 1) \div 2

\* the step at hand is an agent step whose answer is text only (no tool call)
TextOnlyAnswer ==
    /\ agent_steps' = agent_steps + 1
    /\ messages'[Len(messages')].type = "ai"
    /\ messages'[Len(messages')].tool_calls = << >>

(* C22 as stated: when the model gives a text-only answer at its k-th agent  *)
(* step and k is at most the recursion limit B (k = B included), the run     *)
(* reaches END and no recursion-limit error is raised: while the model has   *)
(* answered fewer than B times its next answer is still asked for, so the    *)
(* limit error is not raised, and a text-only answer ends the run.           *)
C22_TextAnswerWithinBudgetEnds ==
    /\ [](agent_steps < recursion_limit =>
            /\ pc # "recursion_error"
            /\ pc = "agent" => ENABLED AgentStep /\ ~ENABLED RecursionLimitReached)
    /\ [][TextOnlyAnswer => pc' = "done"]_vars

(* C22 as amended: the tool node's executions use up the limit too, so the   *)
(* k-th agent step is superstep 2k - 1. When the model gives a text-only     *)
(* answer at its k-th agent step and 2k - 1 is at most the limit B, the run  *)
(* reaches END and no recursion-limit error is raised: while 2k - 1 <= B for *)
(* the next answer k the limit error is not raised and the answer is asked   *)
(* for, and a text-only answer ends the run. With the default B = 25 that is *)
(* any k from 1 to 13. For a larger k the k-th answer is never asked for.    *)
C22_TextAnswerWithinSuperstepsEnds ==
    /\ [](/\ 2 * (agent_steps + 1) - 1 <= recursion_limit =>
               /\ pc # "recursion_error"
               /\ pc = "agent" => ENABLED AgentStep /\ ~ENABLED RecursionLimitReached
          /\ agent_steps <= (recursion_limit + 1) \div 2)
    /\ [][TextOnlyAnswer => pc' = "done" /\ 2 * agent_steps' - 1 <= recursion_limit]_vars

\* the run under the main program's limit of 25 that ended with a text-only
\* answer at the 13th agent step, the last the limit allows
C22_Witness ==
    /\ recursion_limit = DefaultRecursionLimit
    /\ pc = "done"
    /\ agent_steps = 13
    /\ step = DefaultRecursionLimit
    /\ messages[Len(messages)].type = "ai"
    /\ messages[Len(messages)].tool_calls = << >>

\* the probes in which calculate_financial_impact returned an impact payload
ImpactReports ==
    {k \in 1..Len(probe) :
        /\ probe[k].call.name = "calculate_financial_impact"
        /\ ~probe[k].tool.raised
        /\ HasKey(probe[k].tool.data, "risk_score")}

\* the sum of the total_value fields of the orders such a probe was given
OrdersTotal(k) ==
    LET orders == json_loads(Get(probe[k].call.args, "affected_orders").s)
    IN IF orders.kind = "list" THEN SumTotalValue(orders.elems, 1, IntV(0)).total ELSE IntV(0)

(* C23: whenever calculate_financial_impact is given input that parses as    *)
(* JSON and reports an impact, the risk_score it reports lies between 0 and  *)
(* 1 inclusive (0 to 100 hundredths), also when the total_value fields sum   *)
(* to zero or to a negative number.                                          *)
C23_RiskScoreWithinZeroAndOne ==
    \A k \in ImpactReports :
       LET risk_score == Get(probe[k].tool.data, "risk_score")
       IN /\ risk_score.t = "int"
          /\ risk_score.n >= 0
          /\ risk_score.n <= 100

(* C26: whenever the total_value fields of the orders sum to a non-negative  *)
(* number, however large, calculate_financial_impact reports a risk_score of *)
(* at most 0.15 (15 hundredths) and the risk_level 'low', never 'medium' or  *)
(* 'high'.                                                                   *)
C26_NonNegativeTotalIsLowRisk ==
    \A k \in ImpactReports :
       ~FloatLess(OrdersTotal(k), IntV(0)) /\ OrdersTotal(k) # NaN =>
          /\ ~FloatLess(IntV(15), Get(probe[k].tool.data, "risk_score"))
          /\ Get(probe[k].tool.data, "risk_level") = StrV("low")

\* the AI message whose block entry i lies in (0 when there is none)
BlockHead(msgs, i) ==
    LET before == {j \in 1..(i - 1) : IsAI(msgs, j)}
    IN IF before = {} THEN 0 ELSE CHOOSE j \in before : \A k \in before : k <= j

(* C24: whenever the run is at END, the history starts with the seeding      *)
(* human message, ends with an AI message without tool calls, and in between *)
(* consists of blocks of one AI message with at least one tool call followed *)
(* by the tool messages answering its calls: every entry in between is an AI *)
(* or a tool message, no two AI messages are adjacent, and no tool message   *)
(* directly follows the human message.                                       *)
C24_DoneHistoryShape ==
    pc = "done" =>
       /\ Len(messages) >= 2
       /\ messages[1].type = "human"
       /\ IsAI(messages, Len(messages))
       /\ messages[Len(messages)].tool_calls = << >>
       /\ IsAI(messages, 2)
       /\ \A i \in 2..(Len(messages) - 1) :
             /\ messages[i].type \in {"ai", "tool"}
             /\ IsAI(messages, i) =>
                   /\ Len(messages[i].tool_calls) >= 1
                   /\ IsTool(messages, i + 1)
             /\ IsTool(messages, i) =>
                   /\ BlockHead(messages, i) >= 2
                   /\ \E c \in 1..Len(messages[BlockHead(messages, i)].tool_calls) :
                         messages[BlockHead(messages, i)].tool_calls[c].id
                            = messages[i].tool_call_id

(* C25: in every run the router is evaluated only on a history whose tail is *)
(* an AI message: a step that evaluates it (an agent step, which sets the    *)
(* route) leaves an AI message at the end of the history, no other step      *)
(* consults the router, and it is not consulted on the starting history,     *)
(* which ends with the human message.                                        *)
C25_RouterSeesOnlyAgentTail ==
    /\ [](route # "" => agent_steps >= 1)
    /\ [][/\ agent_steps' = agent_steps + 1 =>
                /\ IsAI(messages', Len(messages'))
                /\ route' = route_agent_output(messages')
          /\ agent_steps' = agent_steps => route' = route]_vars

\* the probes in which query_inventory_db ran
QueryProbes ==
    {k \in 1..Len(probe) :
        probe[k].call.name = "query_inventory_db" /\ ~probe[k].tool.raised}

\* the lower-cased text of such a probe's query
QueryText(k) == lower(Chars(Get(probe[k].call.args, "sql").s))

\* the text is about purchase orders
AsksForOrders(text) == In(Chars("purchase_order"), text) \/ In(Chars("po"), text)

\* every record of the table a query is about, as the tool returns them
WholeTable(orders) ==
    IF orders
       THEN tables.PURCHASE_ORDERS
       ELSE [i \in 1..Len(tables.INVENTORY_DATA) |-> WithSku(tables.INVENTORY_DATA[i])]

\* the text names the record: by its supplier id, or by its status (a
\* purchase order) or its SKU id (an inventory entry)
Named(text, orders, rec) ==
    \/ In(lower(Chars(rec.supplier_id)), text)
    \/ IF orders THEN In(lower(Chars(rec.status)), text)
                 ELSE In(lower(Chars(rec.sku)), text)

\* the text holds '*' or 'all'
Wildcard(text) == In(Chars("*"), text) \/ In(Chars("all"), text)

(* C27: query_inventory_db never returns an empty list. For every query text *)
(* it returns records of one table, purchase orders when the text holds      *)
(* 'purchase_order' or 'po' and inventory otherwise: the records the text    *)
(* names, in table order, or every record of that table when it names none;  *)
(* a text that holds '*' or 'all' gets the whole table whatever it names.    *)
(* The tables are left as they were.                                         *)
C27_QueryNeverEmpty ==
    \A k \in QueryProbes :
       LET result == probe[k].tool.data
           text == QueryText(k)
           orders == AsksForOrders(text)
           whole == WholeTable(orders)
           wild == Wildcard(text)
           named == SelectSeq(whole, LAMBDA rec : Named(text, orders, rec))
       IN /\ probe[k].tool.kind = "json_list"
          /\ result # << >>
          /\ \A i \in 1..Len(result) : \E j \in 1..Len(whole) : result[i] = whole[j]
          /\ (wild \/ named = << >>) => result = whole
          /\ (~wild /\ named # << >>) => result = named
          /\ tables = ModuleTables

\* a query that names no record of the inventory, without '*' or 'all', got
\* all six entries
C27_Witness ==
    \E k \in QueryProbes :
       LET text == QueryText(k)
           orders == AsksForOrders(text)
           whole == WholeTable(orders)
       IN /\ ~Wildcard(text)
          /\ ~orders
          /\ \A j \in 1..Len(whole) : ~Named(text, orders, whole[j])
          /\ Len(probe[k].tool.data) = 6

\* the probes in which update_purchase_order ran
OrderUpdates ==
    {k \in 1..Len(probe) :
        probe[k].call.name = "update_purchase_order" /\ ~probe[k].tool.raised}

\* the purchase orders of the table with the given id
OrdersWithId(po_id) ==
    {j \in 1..Len(tables.PURCHASE_ORDERS) : tables.PURCHASE_ORDERS[j].po_id = po_id}

(* C28: whenever update_purchase_order is called with a po_id that exists in *)
(* PURCHASE_ORDERS, the previous_supplier of its payload is the supplier_id  *)
(* recorded for that purchase order; when it is called with a po_id that     *)
(* does not exist, its payload does not report the status 'updated'.         *)
C28_PreviousSupplierIsRecorded ==
    \A k \in OrderUpdates :
       LET po_id == Get(probe[k].call.args, "po_id").s
           payload == probe[k].tool.data
       IN /\ \A j \in OrdersWithId(po_id) :
                Get(payload, "previous_supplier")
                   = StrV(tables.PURCHASE_ORDERS[j].supplier_id)
          /\ OrdersWithId(po_id) = {} => Get(payload, "status") # StrV("updated")

====
